---- MODULE Spec2Model ----
(***************************************************************************)
(* A model of dbx/utils/common.py: the local project store (.dbx/project.json *)
(* and .dbx/lock.json), the deployment-config readers, the API 1.2 client   *)
(* wrapper and prepare_environment.                                         *)
(***************************************************************************)
EXTENDS Integers, Sequences, FiniteSets, TLC

VARIABLES
    fs,           \* the file system: [dir |-> .dbx exists, files |-> path -> file]
    ret,          \* what the last store operation returned or raised
    pre,          \* history: fs as it was when the last store operation started
    initialized,  \* history: InfoFile.initialize has completed at least once
    lastSet,      \* history: <<id>> of the last set_context that completed, else <<>>
    pc,           \* two processes in update_json: where each one is
    arg,          \* the new_content each process was called with
    local,        \* the content each process has read
    clobber,      \* another process wrote the file since this one opened it
    overlap,      \* history: a call started while the other was under way
    cc,           \* ApiV1Client.create_context under retry: the call in progress
    gcs,          \* ApiV1Client.get_context_status: the last call
    cfg,          \* the deployment config file: [ext, doc]
    osenv,        \* os.environ: variable name -> value
    cfgRet,       \* what the last deployment-config call returned or raised
    prep,         \* prepare_environment: the call in progress
    mlflow        \* the tracking backend: experiments, tracking uri, active experiment

storeVars == <<ret, pre, initialized, lastSet>>
raceVars == <<pc, arg, local, clobber, overlap>>
clientVars == <<cc, gcs>>
configVars == <<cfg, osenv, cfgRet>>
prepareVars == <<prep, mlflow>>

vars == <<fs, ret, pre, initialized, lastSet, pc, arg, local, clobber, overlap,
          cc, gcs, cfg, osenv, cfgRet, prep, mlflow>>

----------------------------------------------------------------------------
(* JSON values and documents *)

JNull == [kind |-> "null", v |-> <<>>]
JStr(s) == [kind |-> "str", v |-> <<s>>]
JObj(f) == [kind |-> "obj", v |-> f]

\* a dict with no keys
EmptyDict == [k \in {} |-> JNull]

DBX_PATH == ".dbx"
INFO_FILE_PATH == ".dbx/project.json"
LOCK_FILE_PATH == ".dbx/lock.json"
Paths == {INFO_FILE_PATH, LOCK_FILE_PATH}

\* a file is absent, holds a JSON document, or holds text that is not (yet) a
\* whole JSON document (opened for writing and truncated, the dump not finished)
Absent == [st |-> "absent", doc |-> EmptyDict]
Truncated == [st |-> "partial", doc |-> EmptyDict]
JsonFile(d) == [st |-> "json", doc |-> d]

\* dict.get(key): the value, or None
dict_get(d, k) == IF k \in DOMAIN d THEN d[k] ELSE JNull

\* a merge in which the keys already stored win
dict_update_keeps_old(d, other) ==
    [k \in DOMAIN d \cup DOMAIN other |-> IF k \in DOMAIN d THEN d[k] ELSE other[k]]

\* dict.update(other): other's keys win, the rest is kept
dict_update(d, other) ==
    [k \in DOMAIN d \cup DOMAIN other |-> IF k \in DOMAIN other THEN other[k] ELSE d[k]]

\* pathlib.Path(p).exists()
exists(f, path) == f.files[path].st # "absent"

\* the outcome of a call: the file system after it, and what it returned or raised
Ok(f, value) == [fs |-> f, status |-> "ok", value |-> value, err |-> ""]
Raise(f, err) == [fs |-> f, status |-> "raise", value |-> JNull, err |-> err]

\* read_json: open(path, "r") and json.load
read_json(f, path) ==
    CASE f.files[path].st = "absent" -> Raise(f, "FileNotFoundError")
      [] f.files[path].st = "partial" -> Raise(f, "JSONDecodeError")
      [] OTHER -> Ok(f, f.files[path].doc)

\* write_json: open(path, "w") fails when the directory is missing
write_json(f, content, path) ==
    IF f.dir
    THEN Ok([f EXCEPT !.files[path] = JsonFile(content)], JNull)
    ELSE Raise(f, "FileNotFoundError")

\* an update that starts from {} whatever the file holds
existing_content_dropped(r) == EmptyDict

\* update_json's try/except: what was read, {} on FileNotFoundError
existing_content(r) == IF r.status = "ok" THEN r.value ELSE EmptyDict

\* update_json: read (a missing file is {}), update, write
update_json(f, new_content, path) ==
    LET r == read_json(f, path) IN
    IF r.status = "raise" /\ r.err # "FileNotFoundError" THEN r
    ELSE write_json(f, dict_update(existing_content(r), new_content), path)

----------------------------------------------------------------------------
(* The project store: InfoFile and ContextLockFile *)

JNum(n) == [kind |-> "num", v |-> <<n>>]

\* the mappings InfoFile.update is called with: an environments registry and
\* two further top-level keys
InfoKeys == {"environments", "a", "b"}
OneEnv ==
    [e \in {"default"} |->
        [profile |-> "DEFAULT", workspace_dir |-> "/ws/a", artifact_location |-> "dbfs:/a"]]
InfoValues(k) ==
    IF k = "environments" THEN {JNull, JObj(EmptyDict), JObj(OneEnv)}
    ELSE {JNum(1), JNum(2)}
Partials ==
    UNION {{d \in [S -> UNION {InfoValues(k) : k \in InfoKeys}] :
                \A k \in S : d[k] \in InfoValues(k)} : S \in SUBSET InfoKeys}
ContextIds == {"c1", "c2"}

\* InfoFile._create_dir
_create_dir(f) == IF ~f.dir THEN [f EXCEPT !.dir = TRUE] ELSE f

\* a lock file rewritten on every initialize
_create_lock_file_always(f) == [f EXCEPT !.files[LOCK_FILE_PATH] = JsonFile(EmptyDict)]

\* InfoFile._create_lock_file
_create_lock_file(f) ==
    IF ~exists(f, LOCK_FILE_PATH)
    THEN [f EXCEPT !.files[LOCK_FILE_PATH] = JsonFile(EmptyDict)]
    ELSE f

init_content == [k \in {"environments"} |-> JObj(EmptyDict)]

\* an initialize that merges into the info document instead of replacing it
initialize_merging(f) ==
    update_json(_create_lock_file(_create_dir(f)), init_content, INFO_FILE_PATH)

\* InfoFile.initialize
initialize(f) ==
    write_json(_create_lock_file(_create_dir(f)), init_content, INFO_FILE_PATH)

\* an update that writes the partial mapping as the whole document
update_overwrites(f, content) == write_json(f, content, INFO_FILE_PATH)

\* InfoFile.update
update(f, content) == update_json(f, content, INFO_FILE_PATH)

\* a get that subscripts the document: document[item] raises on a missing key
get_subscript(f, item) ==
    IF ~exists(f, INFO_FILE_PATH)
    THEN Raise(f, "NotConfigured")
    ELSE LET r == read_json(f, INFO_FILE_PATH) IN
         IF r.status # "ok" THEN r
         ELSE IF item \in DOMAIN r.value THEN Ok(f, r.value[item])
         ELSE Raise(f, "KeyError")

\* InfoFile.get
get(f, item) ==
    IF ~exists(f, INFO_FILE_PATH)
    THEN Raise(f, "NotConfigured")
    ELSE LET r == read_json(f, INFO_FILE_PATH) IN
         IF r.status = "ok" THEN Ok(f, dict_get(r.value, item)) ELSE r

\* ContextLockFile.set_context
set_context(f, context_id) ==
    update_json(f, [k \in {"context_id"} |-> JStr(context_id)], LOCK_FILE_PATH)

\* ContextLockFile.get_context
get_context(f) ==
    IF exists(f, LOCK_FILE_PATH)
    THEN LET r == read_json(f, LOCK_FILE_PATH) IN
         IF r.status = "ok" THEN Ok(f, dict_get(r.value, "context_id")) ELSE r
    ELSE Ok(f, JNull)

Procs == {1, 2}

\* no process is in update_json
RaceIdle ==
    /\ pc = [p \in Procs |-> "idle"]
    /\ arg = [p \in Procs |-> EmptyDict]
    /\ local = [p \in Procs |-> EmptyDict]
    /\ clobber = [p \in Procs |-> FALSE]
    /\ overlap = FALSE

\* no client call has been made
ClientIdle ==
    /\ cc = [pc |-> "idle"]
    /\ gcs = [op |-> "none"]

\* no deployment config is loaded
ConfigIdle ==
    /\ cfg = [ext |-> "none"]
    /\ osenv = <<>>
    /\ cfgRet = [op |-> "none"]

\* prepare_environment has not been called
PrepareIdle ==
    /\ prep = [pc |-> "idle"]
    /\ mlflow = [experiments |-> <<>>, tracking_uri |-> "", active |-> ""]

NoCall == [op |-> "none", status |-> "ok", value |-> JNull, err |-> ""]

StoreInit ==
    /\ fs \in {[dir |-> d, files |-> [p \in Paths |-> Absent]] : d \in BOOLEAN}
    /\ ret = NoCall
    /\ pre = fs
    /\ initialized = FALSE
    /\ lastSet = <<>>
    /\ RaceIdle
    /\ ClientIdle
    /\ ConfigIdle
    /\ PrepareIdle

Returned(op, r, more) ==
    [op |-> op, status |-> r.status, value |-> r.value, err |-> r.err] @@ more

DoInitialize ==
    LET r == initialize(fs) IN
    /\ fs' = r.fs
    /\ pre' = fs
    /\ ret' = Returned("initialize", r, <<>>)
    /\ initialized' = (initialized \/ r.status = "ok")
    /\ UNCHANGED <<lastSet, raceVars, clientVars, configVars, prepareVars>>

DoUpdate ==
    \E content \in Partials :
        LET r == update(fs, content) IN
        /\ fs' = r.fs
        /\ pre' = fs
        /\ ret' = Returned("update", r, [path |-> INFO_FILE_PATH, content |-> content])
        /\ UNCHANGED <<initialized, lastSet, raceVars, clientVars, configVars, prepareVars>>

DoGet ==
    \E item \in InfoKeys \cup {"missing"} :
        LET r == get(fs, item) IN
        /\ fs' = r.fs
        /\ pre' = fs
        /\ ret' = Returned("get", r, [item |-> item])
        /\ UNCHANGED <<initialized, lastSet, raceVars, clientVars, configVars, prepareVars>>

DoSetContext ==
    \E id \in ContextIds :
        LET r == set_context(fs, id) IN
        /\ fs' = r.fs
        /\ pre' = fs
        /\ ret' = Returned("set_context", r,
                           [path |-> LOCK_FILE_PATH,
                            content |-> [k \in {"context_id"} |-> JStr(id)]])
        /\ lastSet' = IF r.status = "ok" THEN <<id>> ELSE lastSet
        /\ UNCHANGED <<initialized, raceVars, clientVars, configVars, prepareVars>>

DoGetContext ==
    LET r == get_context(fs) IN
    /\ fs' = r.fs
    /\ pre' = fs
    /\ ret' = Returned("get_context", r, <<>>)
    /\ UNCHANGED <<initialized, lastSet, raceVars, clientVars, configVars, prepareVars>>

StoreNext ==
    \/ DoInitialize
    \/ DoUpdate
    \/ DoGet
    \/ DoSetContext
    \/ DoGetContext

SpecStore == StoreInit /\ [][StoreNext]_vars

\* the document at path, a missing file counting as {}
DocAt(f, path) == IF exists(f, path) THEN f.files[path].doc ELSE EmptyDict

\* C4: a completed update_json(partial, path) leaves at path the document that
\* maps every key of partial to partial's value and every other key to the
\* value it had before (a missing file counting as {}), and the same
\* update_json applied again changes nothing.
C4_UpdateJsonShallowIdempotentMerge ==
    (ret.op \in {"update", "set_context"} /\ ret.status = "ok") =>
        LET old == DocAt(pre, ret.path)
            new == DocAt(fs, ret.path)
            again == update_json(fs, ret.content, ret.path)
        IN  /\ fs.files[ret.path].st = "json"
            /\ DOMAIN new = DOMAIN old \cup DOMAIN ret.content
            /\ \A k \in DOMAIN ret.content : new[k] = ret.content[k]
            /\ \A k \in DOMAIN old \ DOMAIN ret.content : new[k] = old[k]
            /\ again.status = "ok"
            /\ again.fs = fs

\* update_json({"a":1}) on {"b":2} has left {"a":1,"b":2}
C4_Witness ==
    /\ ret.op = "update" /\ ret.status = "ok"
    /\ pre.files[INFO_FILE_PATH] = JsonFile([k \in {"b"} |-> JNum(2)])
    /\ ret.content = [k \in {"a"} |-> JNum(1)]
    /\ fs.files[INFO_FILE_PATH] =
           JsonFile([k \in {"a", "b"} |-> IF k = "a" THEN JNum(1) ELSE JNum(2)])

\* C5: InfoFile.get(key) changes no file; it raises the not-configured error
\* when the info document does not exist, and otherwise returns document[key]
\* when the key is present and null when it is not.
C5_InfoGetContract ==
    ret.op = "get" =>
        /\ fs = pre
        /\ ~exists(pre, INFO_FILE_PATH) =>
               (ret.status = "raise" /\ ret.err = "NotConfigured")
        /\ exists(pre, INFO_FILE_PATH) =>
               /\ ret.status = "ok"
               /\ ret.value = IF ret.item \in DOMAIN pre.files[INFO_FILE_PATH].doc
                               THEN pre.files[INFO_FILE_PATH].doc[ret.item]
                               ELSE JNull

\* get of a key the existing info document lacks has returned null
C5_Witness ==
    /\ ret.op = "get" /\ ret.status = "ok" /\ ret.value = JNull
    /\ exists(fs, INFO_FILE_PATH)
    /\ ret.item \notin DOMAIN fs.files[INFO_FILE_PATH].doc

\* C6: the lock document holds a context_id exactly when a set_context has
\* completed, and get_context returns the id of the most recent completed
\* set_context, or null when there is none (lock file absent or without the key).
C6_GetContextReturnsLastSet ==
    /\ ("context_id" \in DOMAIN DocAt(fs, LOCK_FILE_PATH)) <=> (lastSet # <<>>)
    /\ ret.op = "get_context" =>
           /\ ret.status = "ok"
           /\ ret.value = IF lastSet = <<>> THEN JNull ELSE JStr(lastSet[1])
           /\ (~exists(fs, LOCK_FILE_PATH)
                  \/ "context_id" \notin DOMAIN fs.files[LOCK_FILE_PATH].doc)
                 => ret.value = JNull

\* get_context has returned c2 for a lock file that survived an initialize
C6_Witness ==
    /\ ret.op = "get_context" /\ ret.value = JStr("c2")
    /\ initialized /\ lastSet = <<"c2">>

\* C7: once InfoFile.initialize has completed, the info document exists and has
\* the top-level key environments, whatever initialize, update and get follow.
C7_EnvironmentsKeyKept ==
    initialized =>
        /\ fs.files[INFO_FILE_PATH].st = "json"
        /\ "environments" \in DOMAIN fs.files[INFO_FILE_PATH].doc

\* an update whose partial does not mention environments has completed after
\* an initialize
C7_Witness ==
    /\ initialized
    /\ ret.op = "update" /\ ret.status = "ok"
    /\ ret.content # EmptyDict
    /\ "environments" \notin DOMAIN ret.content

\* C9: InfoFile.initialize leaves the info document equal to
\* {"environments": {}}, leaves an existing lock document as it was, and
\* creates the lock document as {} only when it was absent.
C9_InitializeFrame ==
    ret.op = "initialize" =>
        /\ ret.status = "ok"
        /\ fs.dir
        /\ fs.files[INFO_FILE_PATH] = JsonFile(init_content)
        /\ exists(pre, LOCK_FILE_PATH) =>
               fs.files[LOCK_FILE_PATH] = pre.files[LOCK_FILE_PATH]
        /\ ~exists(pre, LOCK_FILE_PATH) =>
               fs.files[LOCK_FILE_PATH] = JsonFile(EmptyDict)

\* initialize has run over an info document with a stored environment and a
\* further key, and a lock document with a stored context_id
C9_Witness ==
    /\ ret.op = "initialize"
    /\ exists(pre, INFO_FILE_PATH)
    /\ {"environments", "a"} \subseteq DOMAIN pre.files[INFO_FILE_PATH].doc
    /\ pre.files[INFO_FILE_PATH].doc["environments"] = JObj(OneEnv)
    /\ "context_id" \in DOMAIN DocAt(pre, LOCK_FILE_PATH)

----------------------------------------------------------------------------
(* Two processes, each one call of update_json on the info document: the read, *)
(* the open for writing (which truncates) and the dump are separate steps.     *)

\* the partial mappings the two processes write: one key each
RacePartials == {d \in Partials : Cardinality(DOMAIN d) = 1}

StoreIdle ==
    /\ ret = NoCall
    /\ pre = fs
    /\ initialized = FALSE
    /\ lastSet = <<>>

RaceInit ==
    /\ fs \in {[dir |-> d, files |-> [p \in Paths |->
                  IF p = INFO_FILE_PATH THEN file ELSE Absent]] :
                  d \in BOOLEAN, file \in {Absent} \cup {JsonFile(c) : c \in Partials}}
    /\ fs.files[INFO_FILE_PATH].st = "json" => fs.dir
    /\ StoreIdle
    /\ pc = [p \in Procs |-> "start"]
    /\ arg \in [Procs -> RacePartials]
    /\ DOMAIN arg[1] \cap DOMAIN arg[2] = {}
    /\ local = [p \in Procs |-> EmptyDict]
    /\ clobber = [p \in Procs |-> FALSE]
    /\ overlap = FALSE
    /\ ClientIdle
    /\ ConfigIdle
    /\ PrepareIdle

\* content = read_json(file_path), or {} on FileNotFoundError
RaceRead(p) ==
    /\ pc[p] = "start"
    /\ LET r == read_json(fs, INFO_FILE_PATH) IN
       IF r.status = "raise" /\ r.err # "FileNotFoundError"
       THEN /\ pc' = [pc EXCEPT ![p] = "failed"]
            /\ UNCHANGED local
       ELSE /\ pc' = [pc EXCEPT ![p] = "update"]
            /\ local' = [local EXCEPT ![p] = existing_content(r)]
    /\ overlap' = (overlap \/ \E q \in Procs \ {p} : pc[q] \in {"update", "dump"})
    /\ UNCHANGED <<fs, arg, clobber, storeVars, clientVars, configVars, prepareVars>>

\* content.update(new_content); open(file_path, "w")
RaceOpen(p) ==
    /\ pc[p] = "update"
    /\ IF fs.dir
       THEN /\ fs' = [fs EXCEPT !.files[INFO_FILE_PATH] = Truncated]
            /\ pc' = [pc EXCEPT ![p] = "dump"]
       ELSE /\ pc' = [pc EXCEPT ![p] = "failed"]
            /\ UNCHANGED fs
    /\ clobber' = [clobber EXCEPT ![p] = FALSE]
    /\ UNCHANGED <<arg, local, overlap, storeVars, clientVars, configVars, prepareVars>>

\* json.dump(content, f) and close: the text goes in at offset 0, over whatever
\* another process has written since this one opened the file
RaceDump(p) ==
    /\ pc[p] = "dump"
    /\ \E garbled \in {FALSE, clobber[p]} :
           fs' = IF garbled
                 THEN [fs EXCEPT !.files[INFO_FILE_PATH] = Truncated]
                 ELSE write_json(fs, dict_update(local[p], arg[p]), INFO_FILE_PATH).fs
    /\ pc' = [pc EXCEPT ![p] = "done"]
    /\ clobber' = [q \in Procs |-> IF q # p /\ pc[q] = "dump" THEN TRUE ELSE clobber[q]]
    /\ UNCHANGED <<arg, local, overlap, storeVars, clientVars, configVars, prepareVars>>

RaceNext == \E p \in Procs : RaceRead(p) \/ RaceOpen(p) \/ RaceDump(p)

SpecRace == RaceInit /\ [][RaceNext]_vars

\* both calls have returned without an error
BothDone == \A p \in Procs : pc[p] = "done"

\* the document holds what process p wrote
KeyPresent(p) ==
    /\ fs.files[INFO_FILE_PATH].st = "json"
    /\ \A k \in DOMAIN arg[p] :
           /\ k \in DOMAIN fs.files[INFO_FILE_PATH].doc
           /\ fs.files[INFO_FILE_PATH].doc[k] = arg[p][k]

\* C8: when two update_json calls with disjoint keys run one after the other,
\* both keys are in the document afterwards; a lost update needs the calls to
\* overlap (the state of C8_Witness: both returned, one key missing).
C8_SequentialKeepsBothKeys ==
    (BothDone /\ ~overlap) => \A p \in Procs : KeyPresent(p)

\* both calls returned without error, the document is whole, and it lacks the
\* key of process 1: its update is lost
C8_Witness ==
    /\ BothDone
    /\ fs.files[INFO_FILE_PATH].st = "json"
    /\ \E k \in DOMAIN arg[1] : k \notin DOMAIN fs.files[INFO_FILE_PATH].doc
    /\ KeyPresent(2)

----------------------------------------------------------------------------
(* ApiV1Client: create_context under @retry(tries=10, delay=5, backoff=5) and *)
(* get_context_status.                                                         *)

\* what v1_client.perform_query can do: return a response, or raise
Responses == {"ctx1", "ctx2"}
RequestErrors == {"HTTPError", "ConnectionError", "Timeout"}
Outcomes ==
    {[ok |-> TRUE, resp |-> r, err |-> ""] : r \in Responses}
        \cup {[ok |-> FALSE, resp |-> "", err |-> e] : e \in RequestErrors}
Payloads == {"p1", "p2"}

\* one attempt too many
tries_off_by_one == 10 + 1

\* the decorator's arguments
tries == 10
delay == 5
backoff == 5

\* except requests.exceptions.HTTPError, widened to every request error
caught_any(err) == err \in RequestErrors

\* get_context_status: except requests.exceptions.HTTPError
caught(err) == err = "HTTPError"

ClientInit ==
    /\ fs = [dir |-> FALSE, files |-> [p \in Paths |-> Absent]]
    /\ StoreIdle
    /\ RaceIdle
    /\ ClientIdle
    /\ ConfigIdle
    /\ PrepareIdle

\* a call of create_context enters the retry loop: _tries, _delay = tries, delay
CreateContextCall ==
    /\ cc.pc \in {"idle", "returned", "raised"}
    /\ \E payload \in Payloads :
           cc' = [pc |-> "trying", payload |-> payload, _tries |-> tries,
                  _delay |-> delay, requests |-> 0, failures |-> 0, slept |-> 0,
                  last |-> [ok |-> FALSE, resp |-> "", err |-> ""],
                  value |-> <<>>, err |-> ""]
    /\ UNCHANGED <<fs, storeVars, raceVars, gcs, configVars, prepareVars>>

\* one turn of the loop: while _tries: try: return f() except Exception:
\* _tries -= 1; if not _tries: raise; sleep(_delay); _delay *= backoff
CreateContextAttempt ==
    /\ cc.pc = "trying"
    /\ cc._tries # 0
    /\ \E o \in Outcomes :
           cc' = IF o.ok
                 THEN [cc EXCEPT !.pc = "returned", !.requests = @ + 1,
                                 !.last = o, !.value = <<o.resp>>]
                 ELSE IF cc._tries - 1 = 0
                 THEN [cc EXCEPT !.pc = "raised", !.requests = @ + 1,
                                 !.failures = @ + 1, !._tries = @ - 1,
                                 !.last = o, !.err = o.err]
                 ELSE [cc EXCEPT !.requests = @ + 1, !.failures = @ + 1,
                                 !._tries = @ - 1, !.last = o,
                                 !.slept = @ + cc._delay,
                                 !._delay = @ * backoff]
    /\ UNCHANGED <<fs, storeVars, raceVars, gcs, configVars, prepareVars>>

\* get_context_status: the response, None on HTTPError, any other error raised
GetContextStatus ==
    /\ \E payload \in Payloads, o \in Outcomes :
           gcs' = [op |-> "get_context_status", payload |-> payload, outcome |-> o,
                   status |-> IF o.ok \/ caught(o.err) THEN "ok" ELSE "raise",
                   value |-> IF o.ok THEN <<o.resp>> ELSE <<>>,
                   err |-> IF o.ok \/ caught(o.err) THEN "" ELSE o.err]
    /\ UNCHANGED <<fs, storeVars, raceVars, cc, configVars, prepareVars>>

ClientNext ==
    \/ CreateContextCall
    \/ CreateContextAttempt
    \/ GetContextStatus

SpecClient == ClientInit /\ [][ClientNext]_vars

\* C2: a call of create_context issues at most 10 requests; it raises only
\* after 10 failed requests, with the 10th one's error; it returns the
\* response of the first request that succeeds, and no request follows it.
C2_CreateContextAtMostTenRequests ==
    cc.pc # "idle" =>
        /\ cc.requests <= 10
        /\ cc.pc = "trying" => (cc.requests = cc.failures /\ cc.requests < 10)
        /\ cc.pc = "raised" =>
               /\ cc.requests = 10 /\ cc.failures = 10
               /\ ~cc.last.ok /\ cc.err = cc.last.err
        /\ cc.pc = "returned" =>
               /\ cc.requests = cc.failures + 1
               /\ cc.last.ok /\ cc.value = <<cc.last.resp>>

\* the 10th request has failed and its error has propagated
C2_Witness ==
    /\ cc.pc = "raised" /\ cc.requests = 10 /\ cc.err = "Timeout"

\* C3 as claimed: whenever the request fails, with any request error,
\* get_context_status returns null and does not raise; it returns the
\* response when the request succeeds.
C3_NullOnAnyTransportError ==
    gcs.op = "get_context_status" =>
        /\ gcs.status = "ok"
        /\ gcs.value = IF gcs.outcome.ok THEN <<gcs.outcome.resp>> ELSE <<>>

\* C3 as amended: get_context_status returns the response when the request
\* succeeds and null when it fails with an HTTP error status; any other
\* request failure (connection error, timeout) is raised to the caller.
C3_NullOnHttpErrorOnly ==
    gcs.op = "get_context_status" =>
        /\ gcs.outcome.ok => (gcs.status = "ok" /\ gcs.value = <<gcs.outcome.resp>>)
        /\ (~gcs.outcome.ok /\ gcs.outcome.err = "HTTPError") =>
               (gcs.status = "ok" /\ gcs.value = <<>>)
        /\ (~gcs.outcome.ok /\ gcs.outcome.err # "HTTPError") =>
               (gcs.status = "raise" /\ gcs.err = gcs.outcome.err)

\* a status request has failed with an HTTP error and null was returned
C3_Witness ==
    /\ gcs.op = "get_context_status"
    /\ ~gcs.outcome.ok /\ gcs.outcome.err = "HTTPError"
    /\ gcs.status = "ok" /\ gcs.value = <<>>

----------------------------------------------------------------------------
(* Deployment configs: get_deployment_config, JsonDeploymentConfig and        *)
(* YamlDeploymentConfig.  A string is a sequence of characters.  Resolution   *)
(* is modelled string by string: a token that starts in one JSON string and   *)
(* ends in another (which the JSON variant's whole-text substitution would    *)
(* match) is not among the inputs.                                             *)

\* the character classes of PATTERN: [^}{:] and [^}^{]
NameExcluded == {"}", "{", ":"}
DefaultExcluded == {"}", "^", "{"}

\* the last index of the run of characters not in excl that starts at i
RECURSIVE RunEnd(_, _, _)
RunEnd(s, i, excl) ==
    IF i <= Len(s) /\ s[i] \notin excl THEN RunEnd(s, i + 1, excl) ELSE i - 1

NoMatch == [found |-> FALSE, name |-> <<>>, group2 |-> <<>>, end |-> 0]

\* \$\{([^}{:]+)(:[^}^{]+)?\} matched at index i: group 1, group 2 (with its
\* colon; empty when the group takes no part) and the index of the closing brace
MatchAt(s, i) ==
    LET nEnd == RunEnd(s, i + 2, NameExcluded)
        dEnd == RunEnd(s, nEnd + 2, DefaultExcluded)
    IN  IF ~(i + 1 <= Len(s) /\ s[i] = "$" /\ s[i + 1] = "{")
           \/ nEnd < i + 2 \/ nEnd + 1 > Len(s)
        THEN NoMatch
        ELSE IF s[nEnd + 1] = "}"
        THEN [found |-> TRUE, name |-> SubSeq(s, i + 2, nEnd), group2 |-> <<>>,
              end |-> nEnd + 1]
        ELSE IF s[nEnd + 1] = ":" /\ dEnd >= nEnd + 2 /\ dEnd + 1 <= Len(s)
                /\ s[dEnd + 1] = "}"
        THEN [found |-> TRUE, name |-> SubSeq(s, i + 2, nEnd),
              group2 |-> SubSeq(s, nEnd + 1, dEnd), end |-> dEnd + 1]
        ELSE NoMatch

\* os.environ.get(name, "")
environ_get(name) == IF name \in DOMAIN osenv THEN osenv[name] ELSE <<>>

\* env_val = os.environ.get(name, ""); if env_val == "" and default_val:
\* env_val = default_val[1:]
env_val(name, group2) ==
    IF environ_get(name) = <<>> /\ group2 # <<>>
    THEN Tail(group2)
    ELSE environ_get(name)

\* json.dumps(s)[1:-1]: the quote and the backslash are escaped
RECURSIVE json_dumps_str(_)
json_dumps_str(s) ==
    IF s = <<>> THEN <<>>
    ELSE (IF Head(s) \in {"\"", "\\"} THEN <<"\\", Head(s)>> ELSE <<Head(s)>>)
             \o json_dumps_str(Tail(s))

\* json.loads of the body of a string
RECURSIVE json_loads_str(_)
json_loads_str(t) ==
    IF t = <<>> THEN <<>>
    ELSE IF Head(t) = "\\" /\ Len(t) >= 2
    THEN <<t[2]>> \o json_loads_str(SubSeq(t, 3, Len(t)))
    ELSE <<Head(t)>> \o json_loads_str(Tail(t))

\* PATTERN.sub(_env_resolver, text) from index i on
RECURSIVE PATTERN_sub(_, _)
PATTERN_sub(t, i) ==
    IF i > Len(t) THEN <<>>
    ELSE LET m == MatchAt(t, i) IN
         IF m.found
         THEN json_dumps_str(env_val(m.name, m.group2)) \o PATTERN_sub(t, m.end + 1)
         ELSE <<t[i]>> \o PATTERN_sub(t, i + 1)

\* JsonDeploymentConfig.resolve_env_vars on one string of the document
json_resolve(scalar) == json_loads_str(PATTERN_sub(json_dumps_str(scalar.text), 1))

\* PATTERN.findall(value) from index i on: the (name, default) groups
RECURSIVE PATTERN_findall(_, _)
PATTERN_findall(t, i) ==
    IF i > Len(t) THEN <<>>
    ELSE LET m == MatchAt(t, i) IN
         IF m.found
         THEN <<[name |-> m.name, group2 |-> m.group2]>> \o PATTERN_findall(t, m.end + 1)
         ELSE PATTERN_findall(t, i + 1)

\* str.replace(old, new): every occurrence, left to right
RECURSIVE str_replace(_, _, _, _)
str_replace(t, old, new, i) ==
    IF i > Len(t) THEN <<>>
    ELSE IF i + Len(old) - 1 <= Len(t) /\ SubSeq(t, i, i + Len(old) - 1) = old
    THEN new \o str_replace(t, old, new, i + Len(old))
    ELSE <<t[i]>> \o str_replace(t, old, new, i + 1)

\* the loop of YamlDeploymentConfig.resolve_env_vars over the matches
RECURSIVE yaml_replace_each(_, _)
yaml_replace_each(full_value, matches) ==
    IF matches = <<>> THEN full_value
    ELSE LET var == Head(matches) IN
         yaml_replace_each(
             str_replace(full_value, <<"$", "{">> \o var.name \o var.group2 \o <<"}">>,
                         env_val(var.name, var.group2), 1),
             Tail(matches))

\* a YAML scalar: a plain scalar that matches PATTERN gets the !ENV tag and is
\* resolved; a quoted scalar is not implicitly resolved
yaml_resolve(scalar) ==
    IF scalar.style = "plain" /\ PATTERN_findall(scalar.text, 1) # <<>>
    THEN yaml_replace_each(scalar.text, PATTERN_findall(scalar.text, 1))
    ELSE scalar.text

\* a parsed document with every string resolved the way the handler does
ResolveScalar(scalar, handler) ==
    IF handler = "JsonDeploymentConfig" THEN json_resolve(scalar) ELSE yaml_resolve(scalar)
ResolveBlock(block, handler) == [k \in DOMAIN block |-> ResolveScalar(block[k], handler)]
ResolveDoc(doc, handler) ==
    [k \in DOMAIN doc |->
        IF k = "environments"
        THEN [e \in DOMAIN doc[k] |-> ResolveBlock(doc[k][e], handler)]
        ELSE ResolveBlock(doc[k], handler)]

None == [isNone |-> TRUE, value |-> <<>>]
Some(v) == [isNone |-> FALSE, value |-> v]
Returns(x) == [status |-> "ok", err |-> ""] @@ x
Raises(err) == [status |-> "raise", err |-> err] @@ None

\* JsonDeploymentConfig.get_environment
json_get_environment(doc, environment) ==
    LET resolved == ResolveDoc(doc, "JsonDeploymentConfig") IN
    Returns(IF environment \in DOMAIN resolved THEN Some(resolved[environment]) ELSE None)

\* YamlDeploymentConfig.get_environment
yaml_get_environment(doc, environment) ==
    LET loaded == ResolveDoc(doc, "YamlDeploymentConfig") IN
    IF "environments" \notin DOMAIN loaded THEN Raises("AttributeError")
    ELSE Returns(IF environment \in DOMAIN loaded["environments"]
                 THEN Some(loaded["environments"][environment]) ELSE None)

\* JsonDeploymentConfig.get_all_environment_names
json_get_all_environment_names(doc) ==
    Returns(Some(DOMAIN ResolveDoc(doc, "JsonDeploymentConfig")))

\* YamlDeploymentConfig.get_all_environment_names
yaml_get_all_environment_names(doc) ==
    LET loaded == ResolveDoc(doc, "YamlDeploymentConfig") IN
    IF "environments" \notin DOMAIN loaded THEN Raises("AttributeError")
    ELSE Returns(Some(DOMAIN loaded["environments"]))

\* get_deployment_config: the handler for the path's extension
get_deployment_config(ext) ==
    IF ext = "json" THEN "JsonDeploymentConfig"
    ELSE IF ext \in {"yml", "yaml"} THEN "YamlDeploymentConfig"
    ELSE "Exception"

\* the strings of the config files: ${W:/t}, ${W}, /x and ${V:q}${W}
Texts ==
    { <<"$", "{", "W", ":", "/", "t", "}">>,
      <<"$", "{", "W", "}">>,
      <<"/", "x">>,
      <<"$", "{", "V", ":", "q", "}", "$", "{", "W", "}">> }
Scalars == {[style |-> st, text |-> t] : st \in {"plain", "quoted"}, t \in Texts}
Blocks == {[k \in {"workspace_dir"} |-> sc] : sc \in Scalars}
EnvNames == {"default", "dev"}

\* the documents: an optional top-level "environments" mapping of named blocks
\* and an optional top-level block named "default"
ConfigDocs ==
    {[k \in S |-> IF k = "environments" THEN envs ELSE top] :
        S \in SUBSET {"environments", "default"},
        envs \in UNION {[N -> Blocks] : N \in SUBSET EnvNames},
        top \in Blocks}

\* every string of a JSON file is a quoted string
AllQuoted(doc) ==
    \A k \in DOMAIN doc :
        IF k = "environments"
        THEN \A e \in DOMAIN doc[k] : doc[k][e]["workspace_dir"].style = "quoted"
        ELSE doc[k]["workspace_dir"].style = "quoted"

\* the process environment: W unset, empty, /p or a quote; V unset or ${W}
EnvValues(name) ==
    IF name = <<"W">> THEN {<<>>, <<"/", "p">>, <<"\"">>}
    ELSE {<<"$", "{", "W", "}">>}
Environs ==
    UNION {{e \in [S -> EnvValues(<<"W">>) \cup EnvValues(<<"V">>)] :
                \A n \in S : e[n] \in EnvValues(n)} : S \in SUBSET {<<"W">>, <<"V">>}}

ConfigInit ==
    /\ fs = [dir |-> FALSE, files |-> [p \in Paths |-> Absent]]
    /\ StoreIdle
    /\ RaceIdle
    /\ ClientIdle
    /\ PrepareIdle
    /\ cfg \in {[ext |-> x, doc |-> d] : x \in {"json", "yml", "yaml", "toml"},
                                         d \in ConfigDocs}
    /\ cfg.ext = "json" => AllQuoted(cfg.doc)
    /\ cfg.ext = "toml" => cfg.doc = <<>>
    /\ osenv \in Environs
    /\ cfgRet = [op |-> "none"]

\* get_deployment_config(path).get_environment(environment)
GetEnvironment ==
    /\ \E environment \in EnvNames \cup {"environments"} :
           cfgRet' = [op |-> "get_environment", environment |-> environment] @@
               CASE get_deployment_config(cfg.ext) = "JsonDeploymentConfig" ->
                        json_get_environment(cfg.doc, environment)
                 [] get_deployment_config(cfg.ext) = "YamlDeploymentConfig" ->
                        yaml_get_environment(cfg.doc, environment)
                 [] OTHER -> Raises("Exception")
    /\ UNCHANGED <<fs, storeVars, raceVars, clientVars, cfg, osenv, prepareVars>>

\* get_deployment_config(path).get_all_environment_names()
GetAllEnvironmentNames ==
    /\ cfgRet' = [op |-> "get_all_environment_names"] @@
           CASE get_deployment_config(cfg.ext) = "JsonDeploymentConfig" ->
                    json_get_all_environment_names(cfg.doc)
             [] get_deployment_config(cfg.ext) = "YamlDeploymentConfig" ->
                    yaml_get_all_environment_names(cfg.doc)
             [] OTHER -> Raises("Exception")
    /\ UNCHANGED <<fs, storeVars, raceVars, clientVars, cfg, osenv, prepareVars>>

ConfigNext ==
    \/ GetEnvironment
    \/ GetAllEnvironmentNames

SpecConfig == ConfigInit /\ [][ConfigNext]_vars

\* the rule of the claim, token by token: the variable's value if it is set and
\* not empty, else the default if there is one, else the empty string
RECURSIVE Interpolated(_, _)
Interpolated(t, i) ==
    IF i > Len(t) THEN <<>>
    ELSE LET m == MatchAt(t, i) IN
         IF ~m.found THEN <<t[i]>> \o Interpolated(t, i + 1)
         ELSE (IF m.name \in DOMAIN osenv /\ osenv[m.name] # <<>> THEN osenv[m.name]
               ELSE IF m.group2 # <<>> THEN Tail(m.group2)
               ELSE <<>>) \o Interpolated(t, m.end + 1)

\* C1: for a config with a top-level environments mapping, get_environment(E)
\* for a key E of that mapping returns the block stored at environments[E],
\* not null, with every token of its strings replaced by the rule above.
C1_GetEnvironmentReturnsResolvedBlock ==
    ( /\ cfgRet.op = "get_environment"
      /\ cfg.ext \in {"json", "yml", "yaml"}
      /\ "environments" \in DOMAIN cfg.doc
      /\ cfgRet.environment \in DOMAIN cfg.doc["environments"] )
    => /\ cfgRet.status = "ok"
       /\ ~cfgRet.isNone
       /\ cfgRet.value =
              [k \in DOMAIN cfg.doc["environments"][cfgRet.environment] |->
                  Interpolated(cfg.doc["environments"][cfgRet.environment][k].text, 1)]

----------------------------------------------------------------------------
(* prepare_environment, one statement group at a time.  The credential        *)
(* providers, the API client constructor, the workspace service and           *)
(* create_experiment either succeed or raise.                                  *)

DATABRICKS_MLFLOW_URI == "databricks"

WorkspaceDirs == {"/ws/a", "/ws/b"}
ArtifactLocations == {"dbfs:/a", "dbfs:/b"}
EnvironmentSpecs ==
    {[profile |-> "DEFAULT", workspace_dir |-> w, artifact_location |-> a] :
        w \in WorkspaceDirs, a \in ArtifactLocations}

\* the experiments of the tracking backend: name -> artifact location
ExperimentStores == UNION {[N -> ArtifactLocations] : N \in SUBSET WorkspaceDirs}

\* get_environment_data: InfoFile.get("environments").get(environment), and
\* "if not environment_data: raise"
get_environment_data(f, environment) ==
    LET r == get(f, "environments") IN
    IF r.status = "raise" THEN r
    ELSE IF r.value.kind # "obj" THEN Raise(f, "AttributeError")
    ELSE IF environment \notin DOMAIN r.value.v THEN Raise(f, "NoEnvironment")
    ELSE Ok(f, r.value.v[environment])

\* pick_config: the environment variables first, then the profile
pick_config(env_config, profile_config) ==
    IF env_config THEN "ENV" ELSE IF profile_config THEN "PROFILE" ELSE "raise"

\* the tracking uri for a config type
tracking_uri(config_type, data) ==
    IF config_type = "ENV" THEN DATABRICKS_MLFLOW_URI ELSE "databricks://" \o data.profile

\* a verification that accepts any location
location_unchecked(artifact_location, data) == TRUE

\* not (experiment.artifact_location != environment_data["artifact_location"])
location_matches(artifact_location, data) == artifact_location = data.artifact_location

PrepareInit ==
    /\ fs \in {[dir |-> TRUE, files |-> [p \in Paths |->
                  IF p = INFO_FILE_PATH THEN file ELSE Absent]] :
                file \in {Absent, JsonFile(EmptyDict),
                          JsonFile([k \in {"environments"} |-> JNull])}
                    \cup {JsonFile([k \in {"environments"} |-> JObj(envs)]) :
                            envs \in UNION {[N -> EnvironmentSpecs] : N \in SUBSET EnvNames}}}
    /\ StoreIdle
    /\ RaceIdle
    /\ ClientIdle
    /\ ConfigIdle
    /\ prep = [pc |-> "idle"]
    /\ mlflow \in {[experiments |-> e, tracking_uri |-> "", active |-> ""] :
                      e \in ExperimentStores}

PrepRaise(err) == [prep EXCEPT !.pc = "raised", !.err = err]

\* prepare_environment(environment): environment_data = get_environment_data(...)
PrepareCall ==
    /\ prep.pc \in {"idle", "returned", "raised"}
    /\ \E environment \in EnvNames :
           LET r == get_environment_data(fs, environment)
               call == [pc |-> "pick_config", environment |-> environment,
                        data |-> <<>>, config_type |-> "", api_client |-> FALSE,
                        before |-> mlflow.experiments, looked |-> FALSE,
                        found |-> <<>>, created |-> FALSE, activated |-> FALSE,
                        ret |-> <<>>, err |-> ""]
           IN  prep' = IF r.status = "ok" THEN [call EXCEPT !.data = r.value]
                       ELSE [call EXCEPT !.pc = "raised", !.err = r.err]
    /\ UNCHANGED <<fs, storeVars, raceVars, clientVars, configVars, mlflow>>

\* config_type, config = pick_config(environment_data)
PickConfig ==
    /\ prep.pc = "pick_config"
    /\ \E env_config \in BOOLEAN, profile_config \in BOOLEAN :
           prep' = IF pick_config(env_config, profile_config) = "raise"
                   THEN PrepRaise("NoProfile")
                   ELSE [prep EXCEPT !.pc = "get_api_client",
                              !.config_type = pick_config(env_config, profile_config)]
    /\ UNCHANGED <<fs, storeVars, raceVars, clientVars, configVars, mlflow>>

\* api_client = _get_api_client(config, ...), IndexError re-raised
GetApiClient ==
    /\ prep.pc = "get_api_client"
    /\ \E ok \in BOOLEAN :
           prep' = IF ok THEN [prep EXCEPT !.pc = "workspace_dir", !.api_client = TRUE]
                   ELSE PrepRaise("IndexError")
    /\ UNCHANGED <<fs, storeVars, raceVars, clientVars, configVars, mlflow>>

\* _prepare_workspace_dir(api_client, environment_data["workspace_dir"])
PrepareWorkspaceDir ==
    /\ prep.pc = "workspace_dir"
    /\ \E ok \in BOOLEAN :
           prep' = IF ok THEN [prep EXCEPT !.pc = "tracking_uri"]
                   ELSE PrepRaise("HTTPError")
    /\ UNCHANGED <<fs, storeVars, raceVars, clientVars, configVars, mlflow>>

\* mlflow.set_tracking_uri(...)
SetTrackingUri ==
    /\ prep.pc = "tracking_uri"
    /\ mlflow' = [mlflow EXCEPT !.tracking_uri = tracking_uri(prep.config_type, prep.data)]
    /\ prep' = [prep EXCEPT !.pc = "experiment"]
    /\ UNCHANGED <<fs, storeVars, raceVars, clientVars, configVars>>

\* experiment = mlflow.get_experiment_by_name(workspace_dir); create it if there
\* is none, else verify its artifact location
EnsureExperiment ==
    /\ prep.pc = "experiment"
    /\ LET name == prep.data.workspace_dir
           present == name \in DOMAIN mlflow.experiments
           found == IF present THEN <<mlflow.experiments[name]>> ELSE <<>>
       IN  IF ~present
           THEN \E ok \in BOOLEAN :
                    IF ok
                    THEN /\ mlflow' = [mlflow EXCEPT !.experiments =
                                (name :> prep.data.artifact_location) @@ @]
                         /\ prep' = [prep EXCEPT !.pc = "set_experiment", !.looked = TRUE,
                                                 !.found = found, !.created = TRUE]
                    ELSE /\ prep' = [PrepRaise("MlflowException") EXCEPT
                                         !.looked = TRUE, !.found = found]
                         /\ UNCHANGED mlflow
           ELSE /\ prep' = IF location_matches(mlflow.experiments[name], prep.data)
                           THEN [prep EXCEPT !.pc = "set_experiment", !.looked = TRUE,
                                             !.found = found]
                           ELSE [PrepRaise("LocationMismatch") EXCEPT
                                     !.looked = TRUE, !.found = found]
                /\ UNCHANGED mlflow
    /\ UNCHANGED <<fs, storeVars, raceVars, clientVars, configVars>>

\* mlflow.set_experiment(workspace_dir); return api_client
SetExperiment ==
    /\ prep.pc = "set_experiment"
    /\ mlflow' = [mlflow EXCEPT !.active = prep.data.workspace_dir]
    /\ prep' = [prep EXCEPT !.pc = "returned", !.activated = TRUE, !.ret = <<"api_client">>]
    /\ UNCHANGED <<fs, storeVars, raceVars, clientVars, configVars>>

PrepareNext ==
    \/ PrepareCall
    \/ PickConfig
    \/ GetApiClient
    \/ PrepareWorkspaceDir
    \/ SetTrackingUri
    \/ EnsureExperiment
    \/ SetExperiment

SpecPrepare == PrepareInit /\ [][PrepareNext]_vars

\* the call looked the experiment up and found it at another artifact location
Mismatch ==
    /\ prep.looked
    /\ prep.found # <<>>
    /\ prep.found[1] # prep.data.artifact_location

\* C10: a call of prepare_environment creates the experiment only when none of
\* that name exists; set_experiment is reached only when the experiment exists
\* with the environment's artifact location; on an existing experiment with
\* another location the call raises, creates nothing, never activates and
\* returns no API handle.
C10_ExperimentCreatedOrVerifiedBeforeActivation ==
    prep.pc # "idle" =>
        /\ prep.created =>
               /\ prep.found = <<>>
               /\ prep.data.workspace_dir \notin DOMAIN prep.before
               /\ mlflow.experiments =
                      (prep.data.workspace_dir :> prep.data.artifact_location) @@ prep.before
        /\ ~prep.created => mlflow.experiments = prep.before
        /\ (prep.activated \/ prep.pc = "set_experiment") =>
               /\ prep.data.workspace_dir \in DOMAIN mlflow.experiments
               /\ mlflow.experiments[prep.data.workspace_dir] = prep.data.artifact_location
        /\ prep.activated => mlflow.active = prep.data.workspace_dir
        /\ prep.pc = "returned" <=> prep.activated
        /\ prep.ret # <<>> => prep.activated
        /\ Mismatch =>
               /\ prep.pc = "raised"
               /\ ~prep.created /\ ~prep.activated /\ prep.ret = <<>>

\* the call found the experiment at another artifact location and raised
C10_Witness ==
    /\ prep.pc = "raised" /\ prep.err = "LocationMismatch"
    /\ Mismatch

====
